---------------------------- MODULE Spec2Model ----------------------------
(***************************************************************************)
(* Model of park2454/scope:                                                *)
(*   tools/get_quad_ids.py  get_ids_loop, get_field_ids, get_cone_ids      *)
(*   scope/nn.py            DNN.setup, DNN.build_model, DNN.set_callbacks  *)
(*                                                                         *)
(* Three specifications share the variables: Spec (one get_ids_loop run),  *)
(* SpecCone (one get_cone_ids call) and SpecDNN (setup calls on one DNN).  *)
(***************************************************************************)
EXTENDS Integers, Sequences, FiniteSets, TLC

\* ------------------------------------------------------------------ bounds
\* ccd numbers 1..MaxCcd and quad numbers 1..MaxQuad (the survey has 16 and 4)
MaxCcd == 2
MaxQuad == 2
\* largest number of rows the remote catalog holds for one partition
MaxRows == 2
\* largest page limit passed to get_ids_loop
MaxLimit == 2
\* largest number of partitions (ccds times quads) of one run
MaxPartitions == 4
\* number of queries an arbitrary service is followed for
MaxAnyQueries == 3

\* ------------------------------------------------------- program constants
\* get_field_ids: "if limit == 0: limit = 10000000000".  TLC integers are
\* 32-bit, so the substitute is written as the largest power of ten that
\* fits; all the code does with it is compare it with row counts.
LargeLimit == 1000000000
\* DEFAULT_FIELD, the field argument of the run
Field == 301

VARIABLES
    \* ---- get_ids_loop: arguments
    ccd_range,      \* <<first, last>>, inclusive
    quad_range,     \* <<first, last>>, inclusive
    limit,          \* page limit
    verbose,        \* 0, 1 or 2
    whole_field,    \* BOOLEAN
    \* ---- get_ids_loop: locals
    pc,             \* position in get_ids_loop
    dct,            \* the summary dictionary (a function on its keys)
    count,          \* <<>> while the local is unbound, <<n>> once assigned
    ser,            \* the accumulated series of identifiers
    ccd, quad, i,   \* loop variables
    err,            \* the exception that ended the call, "" if none
    \* ---- the world around get_ids_loop
    service,        \* "paged": the catalog honours skip/limit;
                    \* "arbitrary": it returns pages of any length
    rows,           \* rows the catalog holds for each partition queried so far
    issued,         \* every query sent, in order: [ccd, quad, skip, limit]
    pages,          \* the length of every page returned, in order
    partFiles,      \* per-partition output files: name -> identifiers
    fieldFile,      \* <<>> if not written, else <<identifiers>>
    metaFile,       \* <<>> if not written, else <<summary>>
    \* ---- get_cone_ids: arguments
    obj_id_list,    \* identifiers, each a sequence of characters
    ra_list,        \* parallel to obj_id_list
    dec_list,       \* parallel to obj_id_list
    limit_per_query,
    \* ---- get_cone_ids: locals and result
    cpc,            \* position in get_cone_ids
    id,             \* the chunk counter
    cone_data,      \* the merged responses (data): a sequence of [key, rows], in
                    \* insertion order, one entry per key (a Python dict)
    df,             \* <<>> until returned, then <<the rows of the table>>
    cerr,           \* the exception that ended the call, "" if none
    \* ---- the world around get_cone_ids
    chunks,         \* every cone search sent: [ids, radec]
    responses,      \* the kind of every response received
    \* ---- one DNN classifier
    model,          \* self.model: <<>> (None) or <<the Keras model>>
    meta,           \* self.meta: a function on its keys
    dnn_call,       \* the arguments of the last setup call, <<>> before it
    dnn_result,     \* how the setup call ended: "" before it, "ok", "ValueError"
    dnn_out         \* the lines the setup call printed

loopVars == <<ccd_range, quad_range, limit, verbose, whole_field, pc, dct,
              count, ser, ccd, quad, i, err, service, rows, issued, pages,
              partFiles, fieldFile, metaFile>>

coneVars == <<obj_id_list, ra_list, dec_list, limit_per_query, cpc, id, cone_data,
              df, cerr, chunks, responses>>

dnnVars == <<model, meta, dnn_call, dnn_result, dnn_out>>

vars == <<loopVars, coneVars, dnnVars>>

notLoopVars == <<coneVars, dnnVars>>
notConeVars == <<loopVars, dnnVars>>
notDnnVars == <<loopVars, coneVars>>

\* ------------------------------------------------------------------ helpers
Min(a, b) == IF a < b THEN a ELSE b
Max(a, b) == IF a > b THEN a ELSE b

\* (mutation: range(lo, hi), the upper bound left out)
PyRangeExclusive(r) == r[1] .. (r[2] - 1)

\* range(lo, hi + 1)
PyRange(r) == r[1] .. r[2]

\* str(n).zfill(2)
ZFill2(n) == IF n < 10 THEN "0" \o ToString(n) ELSE ToString(n)

\* The identifier of row k of partition (c, q) of the catalog.
RowId(c, q, k) == <<c, q, k>>

\* The page the catalog returns for a "find" with kwargs skip and limit, when it
\* holds n rows for the filter: rows skip+1 .. min(n, skip+limit).
FindPage(c, q, n, skip, lim) ==
    [k \in 1 .. Min(lim, Max(0, n - skip)) |-> RowId(c, q, skip + k)]

\* An arbitrary page of len records
AnyPage(c, q, skip, len) == [k \in 1 .. len |-> RowId(c, q, skip + k)]

\* get_field_ids, lines 258-259
EffectiveLimit(lim) == IF lim = 0 THEN LargeLimit ELSE lim

\* get_field_ids, lines 285-295 and 300-302: the two file names
CsvName(c, q) ==
    "data_ccd_" \o ToString(c) \o "_quad_" \o ToString(q) \o "_field_"
        \o ToString(Field) \o ".csv"
H5Name(c, q) == "data_ccd_" \o ZFill2(c) \o "_quad_" \o ToString(q) \o ".h5"

\* get_field_ids, lines 282-308: what save does to the files
SaveIds(files, c, q, ids, save) ==
    IF save
    THEN (CsvName(c, q) :> ids) @@ (H5Name(c, q) :> ids) @@ files
    ELSE files

\* one more query per partition than the catalog can have rows: enough for
\* every paged run with limit >= 1, and the cap of the runs that never end
MaxQueriesPerPartition == MaxRows + 1

\* get_ids_loop is not running
IdleLoop ==
    /\ ccd_range = <<1, 0>> /\ quad_range = <<1, 0>>
    /\ limit = 0 /\ verbose = 0 /\ whole_field = FALSE
    /\ service = "paged"
    /\ pc = "idle"
    /\ dct = <<>> /\ count = <<>> /\ ser = <<>>
    /\ ccd = 0 /\ quad = 0 /\ i = 0
    /\ err = ""
    /\ rows = <<>> /\ issued = <<>> /\ pages = <<>>
    /\ partFiles = <<>> /\ fieldFile = <<>> /\ metaFile = <<>>

\* get_cone_ids is not running
IdleCone ==
    /\ obj_id_list = <<>> /\ ra_list = <<>> /\ dec_list = <<>>
    /\ limit_per_query = 0
    /\ cpc = "idle" /\ id = 0 /\ cone_data = <<>> /\ df = <<>> /\ cerr = ""
    /\ chunks = <<>> /\ responses = <<>>

\* no DNN has been set up
IdleDNN ==
    /\ model = <<>> /\ meta = <<>> /\ dnn_call = <<>>
    /\ dnn_result = ""
    /\ dnn_out = <<>>

\* --------------------------------------------------------- get_ids_loop
\* ranges: first <= last + 1 (first = last + 1 is the empty range)
Ranges(max) == {r \in (1 .. max) \X (0 .. max) : r[1] <= r[2] + 1}

InitLoop ==
    /\ ccd_range \in Ranges(MaxCcd)
    /\ quad_range \in Ranges(MaxQuad)
    /\ (ccd_range[2] - ccd_range[1] + 1) * (quad_range[2] - quad_range[1] + 1)
          <= MaxPartitions
    /\ limit \in 0 .. MaxLimit
    /\ verbose \in 0 .. 2
    /\ whole_field \in BOOLEAN
    /\ service \in {"paged", "arbitrary"}
    /\ pc = "start"
    /\ dct = <<>>
    /\ count = <<>>
    /\ ser = <<>>
    /\ ccd = 0 /\ quad = 0 /\ i = 0
    /\ err = ""
    /\ rows = <<>>
    /\ issued = <<>>
    /\ pages = <<>>
    /\ partFiles = <<>>
    /\ fieldFile = <<>>
    /\ metaFile = <<>>

\* lines 70-81
InitialDct ==
    IF verbose > 0
    THEN [catalog |-> "catalog", minobs |-> 20, field |-> Field,
          ccd_range |-> ccd_range, quad_range |-> quad_range, ccd |-> <<>>]
    ELSE <<>>

Begin ==
    /\ pc = "start"
    /\ dct' = InitialDct
    /\ count' = IF verbose > 0 THEN <<0>> ELSE <<>>
    /\ ser' = <<>>
    /\ ccd' = ccd_range[1]
    /\ pc' = "for_ccd"
    /\ UNCHANGED <<ccd_range, quad_range, limit, verbose, whole_field, quad, i,
                   err, service, rows, issued, pages, partFiles, fieldFile,
                   metaFile>>
    /\ UNCHANGED notLoopVars

\* lines 83-85: the head of the outer loop and the two assignments under it
ForCcd ==
    /\ pc = "for_ccd"
    /\ IF ccd \in PyRange(ccd_range)
       THEN IF "ccd" \in DOMAIN dct
            THEN /\ dct' = [dct EXCEPT !.ccd = (ccd :> [quad |-> <<>>]) @@ @]
                 /\ quad' = quad_range[1]
                 /\ pc' = "for_quad"
                 /\ err' = err
            ELSE \* dct["ccd"] on the empty dictionary
                 /\ pc' = "raised"
                 /\ err' = "KeyError"
                 /\ UNCHANGED <<dct, quad>>
       ELSE /\ pc' = "after_loops"
            /\ UNCHANGED <<dct, quad, err>>
    /\ UNCHANGED <<ccd_range, quad_range, limit, verbose, whole_field, count,
                   ser, ccd, i, service, rows, issued, pages, partFiles,
                   fieldFile, metaFile>>
    /\ UNCHANGED notLoopVars

\* lines 86-88: the head of the inner loop and i = 0
ForQuad ==
    /\ pc = "for_quad"
    /\ IF quad \in PyRange(quad_range)
       THEN /\ i' = 0
            /\ pc' = "while"
            /\ ccd' = ccd
       ELSE /\ ccd' = ccd + 1
            /\ pc' = "for_ccd"
            /\ i' = i
    /\ UNCHANGED <<ccd_range, quad_range, limit, verbose, whole_field, dct,
                   count, ser, quad, err, service, rows, issued, pages,
                   partFiles, fieldFile, metaFile>>
    /\ UNCHANGED notLoopVars

\* (mutation: a full page ends the partition too)
ShortPageOrFull(data, lim) == Len(data) <= lim

\* line 104: the page ends the partition
ShortPage(data, lim) == Len(data) < lim

\* (mutation: count = length)
AssignCount(cnt, length) == length

\* line 107: count += length
AddCount(cnt, length) == cnt + length

\* lines 106-108
PartitionLength(data, n, lim) == Len(data) + (n * lim)

\* lines 102-103
Accumulate(s, data) == IF verbose > 1 THEN s \o data ELSE s

\* lines 89-110: one pass of the while loop: the call of get_field_ids
\* (lines 258-310) with the catalog's answer n (rows of the partition) and, for
\* the arbitrary service, a page of len records
QueryStep(n, len) ==
    LET skip == i * limit
        data == IF service = "paged"
                THEN FindPage(ccd, quad, n, skip, EffectiveLimit(limit))
                ELSE AnyPage(ccd, quad, skip, len)
        length == PartitionLength(data, i, limit)
    IN  /\ rows' = IF service = "paged" THEN (<<ccd, quad>> :> n) @@ rows
                   ELSE rows
        /\ issued' = Append(issued, [ccd |-> ccd, quad |-> quad, skip |-> skip,
                                     limit |-> limit])
        /\ pages' = Append(pages, Len(data))
        /\ partFiles' = SaveIds(partFiles, ccd, quad, data, ~whole_field)
        /\ ser' = Accumulate(ser, data)
        /\ IF ShortPage(data, limit)
           THEN /\ IF verbose > 0
                   THEN /\ count' = <<AddCount(count[1], length)>>
                        /\ dct' = [dct EXCEPT
                                     !.ccd[ccd].quad = (quad :> length) @@ @]
                   ELSE UNCHANGED <<count, dct>>
                /\ quad' = quad + 1
                /\ pc' = "for_quad"
                /\ i' = i
           ELSE /\ i' = i + 1
                /\ UNCHANGED <<count, dct, quad, pc>>

Query ==
    /\ pc = "while"
    /\ i < MaxQueriesPerPartition
    /\ \/ /\ service = "paged"
          /\ \E n \in 0 .. MaxRows :
                \* the catalog's rows for a partition do not change during the run
                /\ <<ccd, quad>> \in DOMAIN rows => n = rows[<<ccd, quad>>]
                /\ QueryStep(n, 0)
       \/ /\ service = "arbitrary"
          /\ Len(issued) < MaxAnyQueries
          /\ \E len \in 0 .. MaxRows : QueryStep(0, len)
    /\ UNCHANGED <<ccd_range, quad_range, limit, verbose, whole_field, ccd, err,
                   service, fieldFile, metaFile>>
    /\ UNCHANGED notLoopVars

\* lines 111-117
WriteField(file) ==
    IF (verbose > 1) /\ whole_field THEN <<ser>> ELSE file

\* lines 111-129.  json.dump of a dictionary of strings, numbers and lists
\* does not fail, so the except branch of lines 126-127 is never taken.
Finish ==
    /\ pc = "after_loops"
    /\ fieldFile' = WriteField(fieldFile)
    /\ IF count # <<>>
       THEN /\ dct' = ("total" :> count[1]) @@ dct
            /\ metaFile' = <<dct'>>
            /\ pc' = "done"
            /\ err' = err
       ELSE \* dct["total"] = count with count never assigned
            /\ pc' = "raised"
            /\ err' = "UnboundLocalError"
            /\ UNCHANGED <<dct, metaFile>>
    /\ UNCHANGED <<ccd_range, quad_range, limit, verbose, whole_field, count,
                   ser, ccd, quad, i, service, rows, issued, pages, partFiles>>
    /\ UNCHANGED notLoopVars

\* --------------------------------------------------------- get_cone_ids
\* largest number of objects passed to get_cone_ids
MaxObjs == 3
\* largest limit_per_query
MaxBatch == 2

\* get_cone_ids, line 155: "limit_per_query = 10000000000" (see LargeLimit)
LargeBatch == 1000000000

\* Identifiers are sequences of characters.  The pool has identifiers with
\* the separator '.', one with an underscore of its own, and one with neither.
IdPool == {<<"a", ".", "b">>, <<"a", "_", "b">>, <<"c", ".", "d">>, <<"e">>}

\* str.replace(old, new) for one-character old and new
Replace(str, old, new) ==
    [k \in 1 .. Len(str) |-> IF str[k] = old THEN new ELSE str[k]]

\* list[a:b] for 0 <= a
PySlice(list, a, b) == SubSeq(list, a + 1, Min(b, Len(list)))

\* the sequences of n distinct elements of S
DistinctSeqs(S, n) ==
    {q \in [1 .. n -> S] : \A j, k \in 1 .. n : j # k => q[j] # q[k]}

InitCone ==
    /\ \E n \in 0 .. MaxObjs : obj_id_list \in DistinctSeqs(IdPool, n)
    /\ ra_list = [k \in 1 .. Len(obj_id_list) |-> k]
    /\ dec_list = [k \in 1 .. Len(obj_id_list) |-> 0 - k]
    /\ limit_per_query \in 0 .. MaxBatch
    /\ cpc = "start"
    /\ id = 0
    /\ cone_data = <<>>
    /\ df = <<>>
    /\ cerr = ""
    /\ chunks = <<>>
    /\ responses = <<>>

\* lines 154-158
ConeBegin ==
    /\ cpc = "start"
    /\ limit_per_query' = IF limit_per_query = 0 THEN LargeBatch
                          ELSE limit_per_query
    /\ id' = 0
    /\ cone_data' = <<>>
    /\ cpc' = "while"
    /\ UNCHANGED <<obj_id_list, ra_list, dec_list, df, cerr, chunks, responses>>
    /\ UNCHANGED notConeVars

\* dict(zip(keys, values)): a later pair replaces an earlier one with its key
ZipDict(keys, values) ==
    [k \in {keys[j] : j \in 1 .. Len(keys)} |->
        values[CHOOSE j \in 1 .. Len(keys) :
                  /\ keys[j] = k
                  /\ \A h \in (j + 1) .. Len(keys) : keys[h] # k]]

\* lines 161-171 and 177: the chunk with number n
Chunk(n) ==
    LET lo == n * limit_per_query
        hi == Min(Len(obj_id_list), (n + 1) * limit_per_query)
        selected_obj_id == PySlice(obj_id_list, lo, hi)
        selected_ra == PySlice(ra_list, lo, hi)
        selected_dec == PySlice(dec_list, lo, hi)
        radec == [j \in 1 .. Len(selected_obj_id) |->
                     <<selected_ra[j], selected_dec[j]>>]
    IN  [ids |-> selected_obj_id, radec |-> ZipDict(selected_obj_id, radec)]

\* (mutation: the loop goes on while (id + 1) * limit_per_query <= len)
LastChunkStrict(n) == ((n + 1) * limit_per_query) > Len(obj_id_list)

\* line 201
LastChunk(n) == ((n + 1) * limit_per_query) >= Len(obj_id_list)

\* The service's answer for one catalog: whatever is asked, it names each
\* object by its identifier with '.' replaced by '_' and lists that object's
\* matches: one row for the objects in matched, none for the others.  A row
\* keeps the identifier it was matched for in match_of.
ServiceData(chunk, matched) ==
    [j \in 1 .. Len(chunk.ids) |->
        [key |-> Replace(chunk.ids[j], ".", "_"),
         rows |-> IF j \in matched
                  THEN <<[_id |-> chunk.radec[chunk.ids[j]][1],
                          match_of |-> chunk.ids[j]]>>
                  ELSE <<>>]]

\* one key of dict.update: the value of a key already present is replaced
\* where it stands, a new key is added at the end
DictSet(d, e) ==
    IF \E j \in 1 .. Len(d) : d[j].key = e.key
    THEN [j \in 1 .. Len(d) |-> IF d[j].key = e.key THEN e ELSE d[j]]
    ELSE Append(d, e)

RECURSIVE DictUpdate(_, _)
\* line 199: data.update(temp_data)
DictUpdate(d, es) ==
    IF es = <<>> THEN d ELSE DictUpdate(DictSet(d, Head(es)), Tail(es))

\* (mutation: no check of the response)
NeverNone(kind) == FALSE

\* line 195: temp_data is None
TempDataIsNone(kind) == kind = "nocatalog"

\* lines 160-206: one pass of the loop, with the response received:
\*   "nodata"     the response has no "data"
\*   "nocatalog"  its data has no entry for the catalog
\*   "empty"      the entry for the catalog is an empty dictionary
\*   "ok"         the entry lists the matches of every object of the chunk
ConeQueryStep(kind, matched) ==
    LET chunk == Chunk(id)
        temp_data == IF kind = "ok" THEN ServiceData(chunk, matched) ELSE <<>>
    IN  /\ chunks' = Append(chunks, chunk)
        /\ responses' = Append(responses, kind)
        /\ IF kind = "nodata"
           THEN \* line 193: None.get(catalog)
                /\ cpc' = "raised"
                /\ cerr' = "AttributeError"
                /\ UNCHANGED <<cone_data, id>>
           ELSE IF TempDataIsNone(kind)
           THEN /\ cpc' = "raised"
                /\ cerr' = "ValueError"
                /\ UNCHANGED <<cone_data, id>>
           ELSE /\ cone_data' = DictUpdate(cone_data, temp_data)
                /\ cerr' = cerr
                /\ IF LastChunk(id)
                   THEN /\ cpc' = "flatten"
                        /\ id' = id
                   ELSE /\ id' = id + 1
                        /\ cpc' = cpc

ConeQuery ==
    /\ cpc = "while"
    /\ \E kind \in {"nodata", "nocatalog", "empty", "ok"} :
          \E matched \in SUBSET (1 .. Len(Chunk(id).ids)) :
              /\ kind # "ok" => matched = {}
              /\ ConeQueryStep(kind, matched)
    /\ UNCHANGED <<obj_id_list, ra_list, dec_list, limit_per_query, df>>
    /\ UNCHANGED notConeVars

RECURSIVE Flatten(_)
\* lines 213-215: the rows of the non-empty values, in the order of the keys
Flatten(d) ==
    IF d = <<>> THEN <<>> ELSE Head(d).rows \o Flatten(Tail(d))

\* lines 208-211
WithObjId(d) ==
    [j \in 1 .. Len(d) |->
        [key |-> d[j].key,
         rows |-> [h \in 1 .. Len(d[j].rows) |->
                     [_id |-> d[j].rows[h]._id,
                      match_of |-> d[j].rows[h].match_of,
                      obj_id |-> Replace(d[j].key, "_", ".")]]]]

\* lines 208-217
ConeFinish ==
    /\ cpc = "flatten"
    /\ cone_data' = WithObjId(cone_data)
    /\ df' = <<Flatten(cone_data')>>
    /\ cpc' = "done"
    /\ UNCHANGED <<obj_id_list, ra_list, dec_list, limit_per_query, id, cerr,
                   chunks, responses>>
    /\ UNCHANGED notConeVars

InitConeSpec == IdleLoop /\ InitCone /\ IdleDNN

NextCone == ConeBegin \/ ConeQuery \/ ConeFinish

SpecCone == InitConeSpec /\ [][NextCone]_vars

\* ------------------------------------------------------------------ DNN
\* largest number of names in the callbacks argument
MaxCallbacks == 2

OptimizerNames == {"adam", "sgd", "rmsprop"}
CallbackNames == {"early_stopping", "tensorboard", "reduce_lr_on_plateau",
                  "checkpoint"}

\* the keyword arguments tried: none, and overrides of single hyperparameters
\* (numbers are written as the text of their literals)
KwargChoices ==
    {<<>>, [lr |-> "1e-3"], [decay |-> "1e-2"], [epsilon |-> "1e-5"],
     [momentum |-> "0.5"], [patience |-> "3"]}

\* kwargs.get(key, default)
Get(kwargs, key, default) ==
    IF key \in DOMAIN kwargs THEN kwargs[key] ELSE default

\* (mutation: a "not" lost in the check of the branches)
NoBranchLostNot(dense_branch, conv_branch) == (~dense_branch) /\ conv_branch

\* build_model, line 259
NoBranch(dense_branch, conv_branch) == (~dense_branch) /\ (~conv_branch)

\* (mutation: the two single-branch cases exchanged)
MergeSwapped(dense_branch, conv_branch) ==
    IF dense_branch /\ conv_branch THEN "concatenate"
    ELSE IF dense_branch THEN "x_conv" ELSE "x_dense"

\* build_model, lines 304-309: what is passed on to the head
Merge(dense_branch, conv_branch) ==
    IF dense_branch /\ conv_branch THEN "concatenate"
    ELSE IF dense_branch THEN "x_dense" ELSE "x_conv"

\* build_model, lines 262-320: the model as its declared inputs (line 318),
\* the layers of each branch and the input its first layer is applied to
\* (lines 271-273, 281-283), what feeds the head, and the head
BuildModel(dense_branch, conv_branch) ==
    [inputs |-> <<"features", "dmdt">>,
     dense |-> IF dense_branch
               THEN <<"dense_fc_1", "dropout", "dense_fc_2">>
               ELSE <<>>,
     dense_from |-> IF dense_branch THEN "features" ELSE "",
     conv |-> IF conv_branch
              THEN <<"conv_conv_1", "conv_conv_2", "dropout", "max_pool",
                     "conv_conv_3", "conv_conv_4", "dropout",
                     "global_average_pool">>
              ELSE <<>>,
     conv_from |-> IF conv_branch THEN "dmdt" ELSE "",
     merged |-> Merge(dense_branch, conv_branch),
     head |-> <<"dropout", "fc_1", "score">>,
     compiled |-> FALSE]

\* (mutation: the fallback reads the keyword arguments as the adam case does)
FallbackReadsKwargs(kwargs) ==
    [class |-> "Adam",
     learning_rate |-> Get(kwargs, "lr", "3e-4"),
     beta_1 |-> Get(kwargs, "beta_1", "0.9"),
     beta_2 |-> Get(kwargs, "beta_2", "0.999"),
     epsilon |-> Get(kwargs, "epsilon", "1e-7"),
     decay |-> Get(kwargs, "decay", "0.0"),
     amsgrad |-> "False"]

\* setup, lines 218-225: the optimizer of the else case, built from literals
FallbackOptimizer(kwargs) ==
    [class |-> "Adam",
     learning_rate |-> "3e-4",
     beta_1 |-> "0.9",
     beta_2 |-> "0.999",
     epsilon |-> "1e-7",
     decay |-> "0.0",
     amsgrad |-> "False"]

\* setup, lines 193-225
MakeOptimizer(optimizer, kwargs) ==
    IF optimizer = "adam"
    THEN [class |-> "legacy.Adam",
          learning_rate |-> Get(kwargs, "lr", "3e-4"),
          beta_1 |-> Get(kwargs, "beta_1", "0.9"),
          beta_2 |-> Get(kwargs, "beta_2", "0.999"),
          epsilon |-> Get(kwargs, "epsilon", "1e-7"),
          decay |-> Get(kwargs, "decay", "0.0"),
          amsgrad |-> Get(kwargs, "amsgrad", "3e-4")]
    ELSE IF optimizer = "sgd"
    THEN [class |-> "SGD",
          learning_rate |-> Get(kwargs, "lr", "3e-4"),
          momentum |-> Get(kwargs, "momentum", "0.9"),
          decay |-> Get(kwargs, "epsilon", "1e-6"),
          nesterov |-> Get(kwargs, "nesterov", "True")]
    ELSE FallbackOptimizer(kwargs)

\* setup, lines 216-217: the notice printed for an unrecognised optimizer
Notices(optimizer) ==
    IF optimizer \in {"adam", "sgd"}
    THEN <<>>
    ELSE <<"Could not recognize optimizer, using Adam with default params">>

\* setup, lines 227-236
Metrics == <<"tp", "fp", "tn", "fn", "accuracy", "precision", "recall", "auc">>

\* set_callbacks, lines 325-363: the callback made for one name, <<>> for a
\* name that is not recognized
MakeCallback(callback, tag, kwargs) ==
    IF callback = "early_stopping"
    THEN <<[class |-> "EarlyStopping",
            monitor |-> Get(kwargs, "monitor", "val_loss"),
            patience |-> Get(kwargs, "patience", "10"),
            restore_best_weights |->
                Get(kwargs, "restore_best_weights", "True")]>>
    ELSE IF callback = "tensorboard"
    THEN <<[class |-> "TensorBoard", tagged |-> tag # ""]>>
    ELSE IF callback = "reduce_lr_on_plateau"
    THEN <<[class |-> "ReduceLROnPlateau",
            monitor |-> Get(kwargs, "monitor", "val_loss"),
            factor |-> Get(kwargs, "lr_reduction_factor", "0.1"),
            patience |-> Get(kwargs, "patience", "10")]>>
    ELSE <<>>

RECURSIVE CallbacksInOrder(_, _, _)
\* set_callbacks, lines 323-363, for one order of iteration
CallbacksInOrder(order, tag, kwargs) ==
    IF order = <<>> THEN <<>>
    ELSE MakeCallback(Head(order), tag, kwargs)
             \o CallbacksInOrder(Tail(order), tag, kwargs)

\* (mutation: the names are iterated as given, duplicates included)
SetOrdersAsGiven(callbacks) == {callbacks}

\* set(callbacks): the distinct names, iterated in an order the language does
\* not fix
SetOrders(callbacks) ==
    LET names == {callbacks[j] : j \in 1 .. Len(callbacks)}
    IN  {order \in [1 .. Cardinality(names) -> names] :
            \A j, k \in 1 .. Cardinality(names) :
                j # k => order[j] # order[k]}

\* setup, lines 192-238: what a call that got its model leaves in self.meta
MetaAfter(m, loss, optimizer, order, tag, kwargs) ==
    ("loss" :> loss)
        @@ ("optimizer" :> MakeOptimizer(optimizer, kwargs))
        @@ ("metrics" :> Metrics)
        @@ ("callbacks" :> CallbacksInOrder(order, tag, kwargs))
        @@ m

\* setup, lines 188-190 and 241-246: the model built, then compiled
CompiledModel(dense_branch, conv_branch) ==
    [BuildModel(dense_branch, conv_branch) EXCEPT !.compiled = TRUE]

\* The classifier before the call: new (AbstractClassifier.__init__: no model,
\* an empty meta), or set up once before with setup's default arguments.
InitDNN ==
    /\ \/ /\ model = <<>>
          /\ meta = <<>>
       \/ /\ model = <<CompiledModel(TRUE, TRUE)>>
          /\ meta \in {MetaAfter(<<>>, "binary_crossentropy", "adam", order, "",
                                 <<>>) :
                          order \in SetOrders(
                              <<"reduce_lr_on_plateau", "early_stopping">>)}
    /\ dnn_call = <<>>
    /\ dnn_result = ""
    /\ dnn_out = <<>>

\* setup, lines 186-246, set_callbacks (lines 322-363) included.  Line 186
\* (clear_session) resets the framework's global state and touches nothing of
\* the classifier.
Setup(dense_branch, conv_branch, loss, optimizer, callbacks, tag, kwargs) ==
    /\ dnn_call' = [dense_branch |-> dense_branch, conv_branch |-> conv_branch,
                    optimizer |-> optimizer, callbacks |-> callbacks,
                    tag |-> tag, kwargs |-> kwargs]
    /\ IF NoBranch(dense_branch, conv_branch)
       THEN \* build_model raises before anything is assigned
            /\ dnn_result' = "ValueError"
            /\ UNCHANGED <<model, meta, dnn_out>>
       ELSE /\ dnn_result' = "ok"
            /\ dnn_out' = dnn_out \o Notices(optimizer)
            /\ model' = <<CompiledModel(dense_branch, conv_branch)>>
            /\ \E order \in SetOrders(callbacks) :
                  meta' = MetaAfter(meta, loss, optimizer, order, tag, kwargs)
    /\ UNCHANGED notDnnVars

\* the tuples of at most n names
NameTuples(n) == UNION {[1 .. k -> CallbackNames] : k \in 0 .. n}

\* one setup call is followed, with every choice of its arguments
SetupCall ==
    /\ dnn_result = ""
    /\ \E dense_branch \in BOOLEAN, conv_branch \in BOOLEAN,
          optimizer \in OptimizerNames, callbacks \in NameTuples(MaxCallbacks),
          tag \in {"", "v1"}, kwargs \in KwargChoices :
           Setup(dense_branch, conv_branch, "binary_crossentropy", optimizer,
                 callbacks, tag, kwargs)

InitDNNSpec == IdleLoop /\ IdleCone /\ InitDNN

NextDNN == SetupCall

SpecDNN == InitDNNSpec /\ [][NextDNN]_vars

Init == InitLoop /\ IdleCone /\ IdleDNN

Next == Begin \/ ForCcd \/ ForQuad \/ Query \/ Finish

Spec == Init /\ [][Next]_vars

\* ================================================== properties: get_ids_loop
CeilDiv(a, b) == (a + b - 1) \div b

\* the number of queries sent for partition p = <<ccd, quad>>
NumQueries(p) ==
    Cardinality({k \in 1 .. Len(issued) :
                    issued[k].ccd = p[1] /\ issued[k].quad = p[2]})

\* the partitions queried so far
Queried == {<<issued[k].ccd, issued[k].quad>> : k \in 1 .. Len(issued)}

\* the loop has left partition p behind
Past(p) ==
    \/ pc \in {"after_loops", "done"}
    \/ p[1] < ccd
    \/ p[1] = ccd /\ p[2] < quad

\* the partitions that have a count in the summary, and their counts
Recorded(d) ==
    IF "ccd" \in DOMAIN d
    THEN {<<c, q>> \in (1 .. MaxCcd) \X (1 .. MaxQuad) :
             c \in DOMAIN d.ccd /\ q \in DOMAIN d.ccd[c].quad}
    ELSE {}

RecordedCount(d, p) == d.ccd[p[1]].quad[p[2]]

RECURSIVE SumCounts(_, _)
SumCounts(d, ps) ==
    IF ps = {} THEN 0
    ELSE LET p == CHOOSE p \in ps : TRUE
         IN  RecordedCount(d, p) + SumCounts(d, ps \ {p})

\* C1: with a catalog that honours skip and limit and a limit L >= 1, a
\* partition holding N rows is sent exactly ceil((N+1)/L) queries (never more
\* while it is being paged) and the summary records the count N for it.
C1_QueriesAndCount ==
    (service = "paged" /\ limit >= 1) =>
        \A p \in DOMAIN rows :
            /\ NumQueries(p) <= CeilDiv(rows[p] + 1, limit)
            /\ Past(p) =>
                  /\ NumQueries(p) = CeilDiv(rows[p] + 1, limit)
                  /\ p \in Recorded(dct)
                  /\ RecordedCount(dct, p) = rows[p]

\* a partition of exactly one full page was finished by a second, empty page
C1_Witness ==
    /\ service = "paged" /\ limit = 2
    /\ \E p \in DOMAIN rows :
          /\ rows[p] = 2 /\ Past(p) /\ NumQueries(p) = 2
          /\ RecordedCount(dct, p) = 2

\* C2 (as claimed): with limit = 0 every partition is sent exactly one query,
\* which returns all of its rows, after which the loop moves on.
C2_OneQueryPerPartition ==
    (service = "paged" /\ limit = 0) =>
        \A p \in DOMAIN rows : NumQueries(p) <= 1

\* C3: when the run ends, the summary's total is the sum of the counts it
\* records per ccd and quad, whatever the pages returned.
C3_TotalIsSumOfCounts ==
    pc = "done" => dct.total = SumCounts(dct, Recorded(dct))

\* a finished run with counts in two partitions or more
C3_Witness ==
    /\ pc = "done"
    /\ Cardinality({p \in Recorded(dct) : RecordedCount(dct, p) > 0}) >= 2
    /\ dct.total >= 3

\* C4: no partition outside the grid ccd_range x quad_range is ever queried;
\* when the run ends every partition of the grid has been queried and the
\* summary holds one entry per ccd of the range, each with one count per quad
\* of the range.
C4_GridCovered ==
    LET ccds == ccd_range[1] .. ccd_range[2]
        quads == quad_range[1] .. quad_range[2]
    IN  /\ Queried \subseteq ccds \X quads
        /\ pc = "done" =>
              /\ Queried = ccds \X quads
              /\ DOMAIN dct.ccd = ccds
              /\ Cardinality(DOMAIN dct.ccd) = ccd_range[2] - ccd_range[1] + 1
              /\ \A c \in ccds :
                    /\ DOMAIN dct.ccd[c].quad = quads
                    /\ Cardinality(DOMAIN dct.ccd[c].quad)
                          = quad_range[2] - quad_range[1] + 1

\* the spec's scenario: ccd range [1,1], quad range [1,2]
C4_Witness ==
    /\ pc = "done"
    /\ ccd_range = <<1, 1>> /\ quad_range = <<1, 2>>
    /\ Cardinality(DOMAIN dct.ccd[1].quad) = 2

\* C5 (as claimed): every run whose queries succeed ends with meta.json
\* written, holding the parameters, the counts and the total, at every verbose
\* level and for both settings of whole_field.
C5_SummaryAlwaysWritten ==
    pc \in {"done", "raised"} =>
        /\ metaFile # <<>>
        /\ {"catalog", "minobs", "field", "ccd_range", "quad_range", "ccd",
            "total"} \subseteq DOMAIN metaFile[1]

\* C6 (as claimed): when the run ends the aggregate holds as many identifiers
\* as the summary's counts add up to, and every identifier of every partition.
C6_AggregateMatchesCounts ==
    (pc = "done" /\ service = "paged") =>
        /\ Len(ser) = SumCounts(dct, Recorded(dct))
        /\ \A p \in DOMAIN rows : \A k \in 1 .. rows[p] :
              \E j \in 1 .. Len(ser) : ser[j] = RowId(p[1], p[2], k)

\* ================================================== properties: get_cone_ids
RECURSIVE ConcatIds(_)
ConcatIds(cs) == IF cs = <<>> THEN <<>> ELSE Head(cs).ids \o ConcatIds(Tail(cs))

\* the number of chunks n identifiers need with batch size b (b is LargeBatch
\* when the caller passed 0)
ChunksNeeded(n, b) == CeilDiv(n, b)

\* C7: with n >= 1 identifiers and batch size b, get_cone_ids sends ceil(n/b)
\* queries (one when b was 0); the chunks are contiguous and in input order,
\* none is larger than b, together they are the input list, and each
\* identifier is sent with its own ra and dec.
C7_Chunking ==
    (cpc \in {"while", "flatten", "done", "raised"} /\ Len(obj_id_list) >= 1) =>
        LET n == Len(obj_id_list)
            b == limit_per_query
        IN  /\ Len(chunks) <= ChunksNeeded(n, b)
            /\ \A k \in 1 .. Len(chunks) :
                  /\ Len(chunks[k].ids) <= b
                  /\ chunks[k].ids
                       = SubSeq(obj_id_list, (k - 1) * b + 1, Min(n, k * b))
                  /\ DOMAIN chunks[k].radec
                       = {chunks[k].ids[j] : j \in 1 .. Len(chunks[k].ids)}
            /\ \A j \in 1 .. n : \A k \in 1 .. Len(chunks) :
                  obj_id_list[j] \in DOMAIN chunks[k].radec =>
                      chunks[k].radec[obj_id_list[j]]
                          = <<ra_list[j], dec_list[j]>>
            /\ cpc \in {"flatten", "done"} =>
                  /\ Len(chunks) = ChunksNeeded(n, b)
                  /\ ConcatIds(chunks) = obj_id_list
                  /\ b = LargeBatch => Len(chunks) = 1

\* the spec's scenario: 3 identifiers, batch size 2, chunks of 2 and 1
C7_Witness ==
    /\ cpc = "done"
    /\ Len(obj_id_list) = 3 /\ limit_per_query = 2
    /\ Len(chunks) = 2
    /\ Len(chunks[1].ids) = 2 /\ Len(chunks[2].ids) = 1

\* C8 (as claimed): every row of the table carries as obj_id the input
\* identifier it was matched for, whatever the identifier.
C8_ObjIdIsOriginal ==
    cpc = "done" =>
        \A j \in 1 .. Len(df[1]) : df[1][j].obj_id = df[1][j].match_of

\* C9 (as claimed): a response with no data for the catalog, missing or
\* empty, raises at its chunk: it is the last response, and no table is
\* returned.
C9_NoDataAlwaysRaises ==
    \A k \in 1 .. Len(responses) :
        (responses[k] \in {"nodata", "nocatalog", "empty"}
            /\ Len(chunks[k].ids) >= 1) =>
            /\ cpc = "raised"
            /\ k = Len(responses)
            /\ df = <<>>

\* C9 (amended): a response without data, or whose data has no entry for the
\* catalog, raises at its chunk (AttributeError, ValueError): no later chunk is
\* sent and no table is returned.  An entry that is present but empty raises
\* nothing.
C9_MissingDataRaises ==
    \A k \in 1 .. Len(responses) :
        /\ responses[k] \in {"nodata", "nocatalog"} =>
              /\ cpc = "raised"
              /\ cerr = IF responses[k] = "nodata" THEN "AttributeError"
                        ELSE "ValueError"
              /\ k = Len(responses) /\ Len(chunks) = k
              /\ df = <<>>
        /\ responses[k] \notin {"nodata", "nocatalog"} /\ k = Len(responses) =>
              /\ cpc # "raised"
              /\ cerr = ""

\* the second of three chunks had no entry for the catalog
C9_Witness ==
    /\ cpc = "raised" /\ cerr = "ValueError"
    /\ Len(obj_id_list) = 3 /\ limit_per_query = 1
    /\ responses = <<"empty", "nocatalog">>
    /\ Len(chunks) = 2

\* ========================================================= properties: DNN
\* C10: a setup call with dense_branch and conv_branch both False ends with a
\* ValueError, whatever its other arguments, and leaves the classifier's model
\* and its meta (loss, optimizer, metrics, callbacks) as they were.
C10_NoBranchRaises ==
    [][(dnn_call' # dnn_call
          /\ ~dnn_call'.dense_branch /\ ~dnn_call'.conv_branch)
       => (dnn_result' = "ValueError" /\ model' = model /\ meta' = meta)]_vars

\* a classifier set up before, then failing a setup that asks for another
\* optimizer, keeps the first setup's model and optimizer
C10_Witness ==
    /\ dnn_result = "ValueError"
    /\ ~dnn_call.dense_branch /\ ~dnn_call.conv_branch
    /\ dnn_call.optimizer = "sgd"
    /\ model # <<>>
    /\ meta.optimizer.class = "legacy.Adam"

\* the inputs declared by a model, and those its output is computed from
DeclaredInputs(m) == {m.inputs[j] : j \in 1 .. Len(m.inputs)}

ConnectedInputs(m) ==
    (IF m.merged \in {"concatenate", "x_dense"} THEN {m.dense_from} ELSE {})
        \cup (IF m.merged \in {"concatenate", "x_conv"} THEN {m.conv_from}
              ELSE {})

\* the input each branch is meant for
BranchInputs(dense_branch, conv_branch) ==
    (IF dense_branch THEN {"features"} ELSE {})
        \cup (IF conv_branch THEN {"dmdt"} ELSE {})

\* C11 (as claimed): the model built declares as inputs only the inputs of the
\* branches enabled: 'features' for dense only, 'dmdt' for conv only, both for
\* both.
C11_DeclaredInputsByBranch ==
    dnn_result = "ok" =>
        DeclaredInputs(model[1])
            = BranchInputs(dnn_call.dense_branch, dnn_call.conv_branch)

\* C11 (amended): the model built always declares both inputs, 'features' and
\* 'dmdt'; its output is computed from the inputs of the branches enabled
\* only: 'features' for dense only, 'dmdt' for conv only, both for both.
C11_ConnectedInputsByBranch ==
    dnn_result = "ok" =>
        /\ model[1].inputs = <<"features", "dmdt">>
        /\ ConnectedInputs(model[1])
             = BranchInputs(dnn_call.dense_branch, dnn_call.conv_branch)

\* a conv-only model: both inputs declared, 'dmdt' alone connected
C11_Witness ==
    /\ dnn_result = "ok"
    /\ ~dnn_call.dense_branch /\ dnn_call.conv_branch
    /\ DeclaredInputs(model[1]) = {"features", "dmdt"}
    /\ ConnectedInputs(model[1]) = {"dmdt"}

\* C12: after a setup with optimizer 'adam' or 'sgd', the optimizer's learning
\* rate, beta or momentum terms and decay are the values supplied in the
\* keyword arguments, and the defaults for those not supplied; a supplied
\* 'decay' is the decay of either optimizer.
C12_OptimizerFollowsKwargs ==
    (dnn_result = "ok" /\ dnn_call.optimizer \in {"adam", "sgd"}) =>
        LET o == meta["optimizer"]
            k == dnn_call.kwargs
        IN  /\ o.learning_rate = Get(k, "lr", "3e-4")
            /\ dnn_call.optimizer = "adam" =>
                  /\ o.beta_1 = Get(k, "beta_1", "0.9")
                  /\ o.beta_2 = Get(k, "beta_2", "0.999")
                  /\ o.decay = Get(k, "decay", "0.0")
            /\ dnn_call.optimizer = "sgd" =>
                  /\ o.momentum = Get(k, "momentum", "0.9")
                  /\ o.decay = Get(k, "decay", "1e-6")

\* C13: a setup with an optimizer name other than 'adam' and 'sgd', and a
\* branch enabled, ends well: it prints the notice, installs an Adam optimizer
\* with learning rate 3e-4, beta_1 0.9, beta_2 0.999 and decay 0.0 whatever the
\* keyword arguments are, and compiles the model.
C13_FallbackToDefaultAdam ==
    (/\ dnn_call # <<>>
     /\ dnn_call.optimizer \notin {"adam", "sgd"}
     /\ dnn_call.dense_branch \/ dnn_call.conv_branch) =>
        /\ dnn_result = "ok"
        /\ dnn_out
             = <<"Could not recognize optimizer, using Adam with default params">>
        /\ meta["optimizer"].class = "Adam"
        /\ meta["optimizer"].learning_rate = "3e-4"
        /\ meta["optimizer"].beta_1 = "0.9"
        /\ meta["optimizer"].beta_2 = "0.999"
        /\ meta["optimizer"].decay = "0.0"
        /\ model # <<>> /\ model[1].compiled

\* an unrecognised name with a learning rate supplied
C13_Witness ==
    /\ dnn_result = "ok"
    /\ dnn_call.optimizer = "rmsprop"
    /\ "lr" \in DOMAIN dnn_call.kwargs
    /\ meta["optimizer"].learning_rate = "3e-4"
    /\ dnn_out # <<>>
    /\ model[1].compiled

\* the names set_callbacks has a case for, and the class each one makes
RecognizedCallbacks == {"early_stopping", "tensorboard", "reduce_lr_on_plateau"}

ClassOf(name) ==
    IF name = "early_stopping" THEN "EarlyStopping"
    ELSE IF name = "tensorboard" THEN "TensorBoard"
    ELSE "ReduceLROnPlateau"

\* C14: after set_callbacks, run by a setup that got its model, the callback
\* list holds exactly one callback for each distinct recognised name given and
\* nothing else: a name given twice makes one callback, an unrecognised name
\* makes none and raises nothing, and the callbacks the classifier had before
\* are gone.
C14_OneCallbackPerName ==
    dnn_result = "ok" =>
        LET given == {dnn_call.callbacks[j] :
                         j \in 1 .. Len(dnn_call.callbacks)}
            names == given \cap RecognizedCallbacks
            cbs == meta["callbacks"]
        IN  /\ Len(cbs) = Cardinality(names)
            /\ \A n \in names :
                  Cardinality({j \in 1 .. Len(cbs) :
                                  cbs[j].class = ClassOf(n)}) = 1

\* a name given twice made one callback
C14_Witness ==
    /\ dnn_result = "ok"
    /\ dnn_call.callbacks = <<"tensorboard", "tensorboard">>
    /\ Len(meta["callbacks"]) = 1
    /\ meta["callbacks"][1].class = "TensorBoard"

\* an unrecognised name and no other made an empty list
C14_WitnessUnrecognized ==
    /\ dnn_result = "ok"
    /\ dnn_call.callbacks = <<"checkpoint">>
    /\ meta["callbacks"] = <<>>

\* the queries sent for partition p, as positions in the order of sending
QueriesOf(p) ==
    {k \in 1 .. Len(issued) : issued[k].ccd = p[1] /\ issued[k].quad = p[2]}

\* C15: with a catalog that honours skip and limit, the queries of one
\* partition have the offsets 0, L, 2L, ... in the order they are sent, strictly
\* increasing and none twice; a query follows another one of its partition only
\* if that one's page had exactly L records, so none follows a shorter page.
C15_OffsetsInOrder ==
    service = "paged" =>
        \A k \in 1 .. Len(issued) :
            LET p == <<issued[k].ccd, issued[k].quad>>
                before == {j \in QueriesOf(p) : j < k}
            IN  /\ issued[k].skip = Cardinality(before) * issued[k].limit
                /\ \A j \in before :
                      /\ issued[j].skip < issued[k].skip
                      /\ pages[j] = issued[j].limit

\* all the identifiers of a partition holding n rows
AllIds(p, n) == [k \in 1 .. n |-> RowId(p[1], p[2], k)]

\* C16: after a run with whole_field = False over a catalog that honours skip
\* and limit, the CSV file and the HDF5 file of every partition queried hold
\* one row for each of the partition's N identifiers, and no two partitions
\* have a file name in common.
C16_FilesHoldAllIds ==
    (pc = "done" /\ ~whole_field /\ service = "paged") =>
        /\ \A p \in DOMAIN rows :
              /\ CsvName(p[1], p[2]) \in DOMAIN partFiles
              /\ H5Name(p[1], p[2]) \in DOMAIN partFiles
              /\ partFiles[CsvName(p[1], p[2])] = AllIds(p, rows[p])
              /\ partFiles[H5Name(p[1], p[2])] = AllIds(p, rows[p])
        /\ \A p, r \in DOMAIN rows :
              p # r =>
                  {CsvName(p[1], p[2]), H5Name(p[1], p[2])}
                      \cap {CsvName(r[1], r[2]), H5Name(r[1], r[2])} = {}

=============================================================================
